---- MODULE Spec2Model ----
(***************************************************************************)
(* Model of server.js: the in-memory Agent Store (POST /create-agent,      *)
(* POST /add-tool), the Tool Registry (getTools), the Single-Turn          *)
(* Responder (getCompletionFromAgent) and the Conductor                    *)
(* (runMultiAgentConductor, POST /start-conversation).                     *)
(*                                                                         *)
(* JavaScript values.  A string-valued slot that holds `undefined` holds   *)
(* Undefined, one that holds `null` holds Null.  An object-valued slot     *)
(* that holds `undefined` holds UndefinedObject.  An object is a record;   *)
(* a property the object does not have is a field the record does not     *)
(* have (see Get).                                                         *)
(*                                                                         *)
(* Steps.  One action is the code that runs between two suspension points  *)
(* of the event loop: a handler up to its first await, or the continuation *)
(* of an await up to the next one.                                         *)
(***************************************************************************)
EXTENDS Integers, Sequences, FiniteSets, TLC

\* ------------------------------------------------------------- bounds
\* Date.now() takes the values 1..MaxClock.
MaxClock == 2
\* The store holds at most MaxAgents agents.
MaxAgents == 2
\* An agent's tools array holds at most MaxTools entries.
MaxTools == 2
\* At most MaxInFlight /add-tool requests wait at `await getTools()`.
MaxInFlight == 2
\* A conversation request lists at most MaxIds agent ids.
MaxIds == 2
\* A caller supplies maxTurns in 0..MaxTurns (or omits it).
MaxTurns == 2
\* The provider settles at most MaxCompletions completion requests of one
\* conversation; a later request stays pending.
MaxCompletions == 4

\* ------------------------------------------------ JavaScript values
Undefined == "undefined"
Null == "null"
UndefinedObject == [undefined |-> TRUE]

\* obj.field: undefined when the object has no such property.
Get(obj, field) == IF field \in DOMAIN obj THEN obj[field] ELSE Undefined

\* !v for a string-valued slot: undefined, null and '' are falsy.
FalsyString(v) == v \in {Undefined, Null, ""}

\* Mutant of Push: the new element replaces the last one.
PushOverwrite(arr, m) ==
  IF Len(arr) > 1 THEN [arr EXCEPT ![Len(arr)] = m] ELSE Append(arr, m)

\* Array.prototype.push
Push(arr, m) == Append(arr, m)

\* Array.prototype.find with `a => a.id === id`: the position of the first
\* agent with that id, 0 when there is none (find returns undefined).
FindAgent(store, id) ==
  IF \E i \in 1..Len(store) : store[i].id = id
  THEN CHOOSE i \in 1..Len(store) :
         /\ store[i].id = id
         /\ \A j \in 1..(i - 1) : store[j].id # id
  ELSE 0

\* ------------------------------------------------------ Tool Registry
\* The files of ./tools, each a <<base name, extension>> pair.
ToolsDir == {<<"add", ".js">>, <<"mul", ".js">>, <<"README", ".md">>}

\* The `details` export of ./tools/<moduleName>.js.
ToolDetails(moduleName) == [name |-> moduleName]

\* getTools(): one entry per *.js file, keyed by the file's base name.
getTools ==
  [moduleName \in {f[1] : f \in {g \in ToolsDir : g[2] = ".js"}} |->
     [details |-> ToolDetails(moduleName), execute |-> moduleName]]

\* tools[toolName]: undefined when the mapping has no such key.
Lookup(tools, toolName) ==
  IF toolName \in DOMAIN tools THEN tools[toolName] ELSE UndefinedObject

VARIABLES
  now,        \* Date.now()
  agents,     \* the in-memory store `agents`
  inFlight,   \* /add-tool requests suspended at `await getTools()`
  res,        \* the last response a management handler sent
  pc,         \* where the conversation is suspended
  caller,     \* who invoked runMultiAgentConductor
  agentIds,   \* runMultiAgentConductor's agentIds
  max_turns,  \* runMultiAgentConductor's max_turns
  messages,   \* the caller's opening message list
  result,     \* result.messages, the shared transcript
  turnCount,  \* runMultiAgentConductor's turnCount
  agentIndex, \* runMultiAgentConductor's agentIndex (0-based)
  agent,      \* the agent the turn resolved (its position in the store)
  response,   \* getCompletionFromAgent's outer `response` message
  agentResponse, \* what getCompletionFromAgent returned
  outcome,    \* how the Conductor run ended
  convRes,    \* the response of POST /start-conversation
  codeFile,   \* the content of ./code.py
  invocations,  \* getCompletionFromAgent calls of this run
  modelCalls,   \* openai.chat.completions.create calls of this turn
  completions,  \* completion requests of this run the provider settled
  executed,     \* tool executions started in this turn
  turnStart,    \* Len(result) when the turn's Responder was invoked
  toolReturned, \* the tool's execute returned in this turn
  lookups,      \* agents.find calls of this run
  speakers,     \* per Responder call of this run: the list position and the id
  expected,     \* the transcript of a run of plain-text replies
  request,      \* the payload of the turn's latest completion request
  parked,       \* the locals of the conversation that is not running
  self          \* the conversation that is running (1 or 2)

storeVars == <<now, agents, inFlight, res>>
convVars == <<pc, caller, agentIds, max_turns, messages, result, turnCount,
              agentIndex, agent, response, agentResponse, outcome, convRes,
              codeFile, invocations, modelCalls, completions, executed,
              turnStart, toolReturned, lookups, speakers, expected,
              request>>

duoVars == <<parked, self>>

NoResponse == [route |-> "", status |-> 0, error |-> ""]
Response(route, status, error) ==
  [route |-> route, status |-> status, error |-> error]

\* ------------------------------------------------------- Agent Store
\* createAgent({name, model, systemMsg}) when Date.now() is t
createAgent(body, t) ==
  [id |-> t,
   name |-> body.name,
   model |-> body.model,
   systemMsg |-> Get(body, "systemMsg"),
   tools |-> << >>,
   history |-> << >>]

\* Request bodies of POST /create-agent.
CreateBodies ==
  { [name |-> "A", model |-> "gpt-4o"],
    [name |-> "B", model |-> "gpt-4o", systemMsg |-> "Be brief."],
    [name |-> "", model |-> "gpt-4o"],
    [name |-> "A"] }

\* Mutant of CreateRejected: only the model is required.
CreateRejectedModelOnly(body) == FalsyString(Get(body, "model"))

\* !name || !model
CreateRejected(body) ==
  FalsyString(Get(body, "name")) \/ FalsyString(Get(body, "model"))

\* The clock advances.
Tick ==
  /\ now < MaxClock
  /\ now' = now + 1
  /\ UNCHANGED <<agents, inFlight, res>>
  /\ UNCHANGED convVars
  /\ UNCHANGED duoVars

\* POST /create-agent with the given body
CreateAgentFor(body) ==
  /\ Len(agents) < MaxAgents
  /\ IF CreateRejected(body)
     THEN /\ res' = Response("/create-agent", 400, "name and model are required")
          /\ UNCHANGED agents
     ELSE /\ agents' = Push(agents, createAgent(body, now))
          /\ res' = Response("/create-agent", 200, "")
  /\ UNCHANGED <<now, inFlight>>
  /\ UNCHANGED convVars
  /\ UNCHANGED duoVars

CreateAgent == \E body \in CreateBodies : CreateAgentFor(body)

\* agent.tools.some(tool => tool.details.name === toolName), scanning from
\* position i: "true" at the first match, "TypeError" when an entry read
\* before any match is undefined, "false" when the scan ends.
RECURSIVE SomeFrom(_, _, _)
SomeFrom(tools, toolName, i) ==
  IF i > Len(tools) THEN "false"
  ELSE IF tools[i] = UndefinedObject THEN "TypeError"
  ELSE IF tools[i].details.name = toolName THEN "true"
  ELSE SomeFrom(tools, toolName, i + 1)

\* Mutant of HasToolNamed: the check never finds the name.
HasToolNamedNever(tools, toolName) == "false"

HasToolNamed(tools, toolName) == SomeFrom(tools, toolName, 1)

\* Request bodies of POST /add-tool: agentId is 0 (falsy), an id the clock
\* can have produced, or an id no agent has.
UnknownId == MaxClock + 1
AddToolBodies ==
  [agentId : 0..UnknownId, toolName : {"", "add", "mul", "nope"}]

\* Number(v) for a number v.
Number(v) == v

\* The in-flight requests that will append to the agent at position pos.
InFlightFor(pos) == Cardinality({i \in 1..Len(inFlight) : inFlight[i].agent = pos})

\* POST /add-tool from its first line to `await getTools()`: the response
\* it sends, or status 0 with "await" when it reaches the await and with
\* "TypeError" when the duplicate check throws (the async handler rejects
\* and no response is written).
AddToolChecks(store, body) ==
  LET pos == FindAgent(store, Number(body.agentId)) IN
  IF body.agentId = 0 \/ FalsyString(body.toolName)
  THEN Response("/add-tool", 400, "agentId and toolName are required")
  ELSE IF pos = 0
  THEN Response("/add-tool", 404, "Agent not found.")
  ELSE LET dup == HasToolNamed(store[pos].tools, body.toolName) IN
       IF dup = "true"
       THEN Response("/add-tool", 400, "Tool with this name is already assigned.")
       ELSE IF dup = "TypeError"
       THEN Response("/add-tool", 0, "TypeError")
       ELSE Response("/add-tool", 0, "await")

\* agent.tools.push(tools[toolName]) on the agent at position pos
AssignTool(store, pos, toolName) ==
  LET tools == getTools IN
  [store EXCEPT ![pos].tools = Push(@, Lookup(tools, toolName))]

\* POST /add-tool with the given body, up to `await getTools()`.
AddToolRequestFor(body) ==
  LET checks == AddToolChecks(agents, body)
      pos == FindAgent(agents, Number(body.agentId)) IN
  /\ UNCHANGED <<now, agents>>
  /\ UNCHANGED convVars
  /\ UNCHANGED duoVars
  /\ IF checks.error = "await"
     THEN /\ Len(inFlight) < MaxInFlight
          /\ Len(agents[pos].tools) + InFlightFor(pos) < MaxTools
          /\ inFlight' = Append(inFlight, [agent |-> pos, toolName |-> body.toolName])
          /\ UNCHANGED res
     ELSE /\ res' = checks
          /\ UNCHANGED inFlight

AddToolRequest == \E body \in AddToolBodies : AddToolRequestFor(body)

\* seq without its i-th element
RemoveAt(seq, i) == SubSeq(seq, 1, i - 1) \o SubSeq(seq, i + 1, Len(seq))

\* POST /add-tool, from the return of getTools() to the response.
AddToolResume ==
  \E i \in 1..Len(inFlight) :
    LET req == inFlight[i] IN
    /\ agents' = AssignTool(agents, req.agent, req.toolName)
    /\ res' = Response("/add-tool", 200, "")
    /\ inFlight' = RemoveAt(inFlight, i)
    /\ UNCHANGED now
    /\ UNCHANGED convVars
    /\ UNCHANGED duoVars


\* ----------------------------------------------- the model, the tools
\* Reply texts without a code fence, and with one.  A string cannot hold a
\* backquote here: ~~~ stands for the fence marker of three backquotes.
PlainTexts == {"hi", "hello"}
FencedTexts == {"~~~x~~~"}

\* content.includes(fence)
includesFence(content) == content \in FencedTexts

\* content.substring(content.indexOf(fence) + 3, content.lastIndexOf(fence))
ExtractCode(content) == IF content = "~~~x~~~" THEN "x" ELSE ""

\* One entry of message.tool_calls.
ToolCall(name, arguments) ==
  [id |-> "call_1", type |-> "function",
   function |-> [name |-> name, arguments |-> arguments]]

\* The tool_calls arrays a reply can carry.
ToolCallLists ==
  { << >>,
    <<ToolCall("add", "{}")>>,
    <<ToolCall("add", "{oops")>>,
    <<ToolCall("nope", "{}")>>,
    <<ToolCall("add", "{}"), ToolCall("nope", "{}")>> }

\* response.choices[0].message of a completion: a text reply, or a reply
\* that carries tool_calls (its content null or text).
TextReplies ==
  {[role |-> "assistant", content |-> c] : c \in PlainTexts \cup FencedTexts \cup {Null}}
ToolCallReplies ==
  {[role |-> "assistant", content |-> c, tool_calls |-> l] :
     c \in {Null, "hi"} \cup FencedTexts, l \in ToolCallLists}

\* A reply requests a tool when its tool_calls array has an entry.
RequestsTool(m) == "tool_calls" \in DOMAIN m /\ Len(m.tool_calls) > 0

\* The content of the follow-up completion.
FinalContents == {"The sum is 3."}

\* What a tool's execute returns.
ExecResults == {3}

\* Mutant of JSONstringify: the result is not encoded.
JSONstringifyBlank(v) == ""

\* JSON.stringify of a number
JSONstringify(v) == ToString(v)

\* JSON.parse(rawArgs) followed by Object.values: the argument values, or
\* "SyntaxError" for a payload that is not JSON.
JSONparse(rawArgs) ==
  IF rawArgs = "{}" THEN [ok |-> TRUE, values |-> << >>]
  ELSE [ok |-> FALSE, values |-> << >>]

\* Mutant of ParsedArgs: a payload that does not parse is passed on raw.
ParsedArgsRaw(rawArgs) ==
  IF JSONparse(rawArgs).ok THEN JSONparse(rawArgs).values ELSE <<rawArgs>>

\* parsedArgs starts as {} and stays {} when JSON.parse throws.
ParsedArgs(rawArgs) == JSONparse(rawArgs).values

\* What the catch block of getCompletionFromAgent returns.
CaughtError(details) == [error |-> "OpenAI API failed", details |-> details]

NoFunctionCall == [message |-> "No function call detected."]

\* Mutant of NotFoundMessage: the diagnostic does not name the id.
NotFoundMessageNoId(agentId) ==
  [role |-> "system", content |-> "Agent not found. Stopping."]

\* The Conductor's diagnostic for an id the store does not hold.
NotFoundMessage(agentId) ==
  [role |-> "system",
   content |-> "Agent with id=" \o ToString(agentId) \o " not found. Stopping."]

\* ---------------------------------------------------------- Conductor
DefaultMaxTurns == 6

\* The ids a conversation request can list: those of the stored agents and
\* one that no agent has.
IdInputs == {agents[i].id : i \in 1..Len(agents)} \cup {UnknownId}
IdLists == UNION {[1..n -> IdInputs] : n \in 1..MaxIds}

UserInputs == {"go"}

\* userInput || ''
OrEmpty(v) == IF FalsyString(v) THEN "" ELSE v

\* maxTurns || 6 for a number or undefined (a body without the field)
OrDefault(body) ==
  IF "maxTurns" \in DOMAIN body /\ body.maxTurns # 0
  THEN body.maxTurns ELSE DefaultMaxTurns

\* Request bodies of POST /start-conversation.
ConversationBodies ==
  [agentIds : IdLists \cup {<< >>}, userInput : UserInputs]
  \cup [agentIds : IdLists \cup {<< >>}, userInput : UserInputs, maxTurns : 0..MaxTurns]

NoConvRes == [status |-> 0]

\* No completion request has been sent in this turn.
NoRequest == [messages |-> << >>]

\* The locals of one turn, as they are before and after it.
TurnLocalsCleared ==
  /\ agent' = 0
  /\ response' = UndefinedObject
  /\ agentResponse' = UndefinedObject
  /\ request' = NoRequest

\* No Conductor run: the variables of a run hold their initial values.
NoRun ==
  /\ caller' = ""
  /\ agentIds' = << >>
  /\ max_turns' = 0
  /\ messages' = << >>
  /\ result' = << >>
  /\ turnCount' = 0
  /\ agentIndex' = 0
  /\ outcome' = ""
  /\ invocations' = 0
  /\ modelCalls' = 0
  /\ completions' = 0
  /\ executed' = 0
  /\ turnStart' = 0
  /\ toolReturned' = FALSE
  /\ lookups' = 0
  /\ speakers' = << >>
  /\ expected' = << >>
  /\ TurnLocalsCleared

\* runMultiAgentConductor's entry: the copy of the opening messages and the
\* two counters.
EnterConductor(ids, msgs, maxTurns, who) ==
  /\ caller' = who
  /\ agentIds' = ids
  /\ max_turns' = maxTurns
  /\ messages' = msgs
  /\ result' = msgs
  /\ turnCount' = 0
  /\ agentIndex' = 0
  /\ outcome' = ""
  /\ invocations' = 0
  /\ modelCalls' = 0
  /\ completions' = 0
  /\ executed' = 0
  /\ turnStart' = 0
  /\ toolReturned' = FALSE
  /\ lookups' = 0
  /\ speakers' = << >>
  /\ expected' = msgs
  /\ TurnLocalsCleared
  /\ pc' = "loop"

\* POST /start-conversation with the given body, up to the call of
\* runMultiAgentConductor.
StartConversationFor(body) ==
  /\ pc \in {"idle", "done"}
  /\ UNCHANGED storeVars
  /\ UNCHANGED duoVars
  /\ UNCHANGED codeFile
  /\ IF Len(body.agentIds) = 0
     THEN \* rejected: runMultiAgentConductor is not called
          /\ convRes' = [status |-> 400, error |-> "agentIds must be a non-empty array"]
          /\ pc' = "done"
          /\ NoRun
     ELSE /\ convRes' = NoConvRes
          /\ EnterConductor([i \in 1..Len(body.agentIds) |-> Number(body.agentIds[i])],
                            <<[role |-> "user", content |-> OrEmpty(body.userInput)]>>,
                            OrDefault(body), "handler")

StartConversation == \E body \in ConversationBodies : StartConversationFor(body)

\* How a Conductor run ends: the handler answers with the transcript, or
\* with 500 when the run threw.
Finish(how, transcript) ==
  /\ pc' = "done"
  /\ outcome' = how
  /\ convRes' = IF caller # "handler" THEN convRes
                ELSE IF how = "THREW"
                THEN [status |-> 500, error |-> "Something went wrong."]
                ELSE [status |-> 200, messages |-> transcript]

\* The system message of lines 101-104: agent.systemMsg || the default text.
systemMsgOf(a) ==
  [role |-> "system",
   content |-> IF FalsyString(a.systemMsg) THEN "You are a helpful agent."
               ELSE a.systemMsg]

\* [systemMsg, ...messages]
chatMessages(a, transcript) == <<systemMsgOf(a)>> \o transcript

\* The payload of the follow-up completion: { messages: messages }
completion_payload(transcript) == [messages |-> transcript]

\* Object.values(agent.tools).map(toolObj => toolObj.details): the schemas;
\* the map throws a TypeError when an entry is undefined.
SchemaOf(tools) ==
  IF \E i \in 1..Len(tools) : tools[i] = UndefinedObject
  THEN [threw |-> TRUE, schema |-> << >>]
  ELSE [threw |-> FALSE, schema |-> [i \in 1..Len(tools) |-> tools[i].details]]

\* Mutant of ToolsAfterMap: the schemas replace the entries they came from.
ToolsAfterMapInPlace(tools) == SchemaOf(tools).schema

\* agent.tools after Object.values(agent.tools).map(...): values and map
\* build new arrays, the agent's array keeps its entries.
ToolsAfterMap(tools) == tools

\* Mutant of LoopTest: one turn too many.
LoopTestInclusive(count, max) == count <= max

\* while (turnCount < max_turns)
LoopTest(count, max) == count < max

\* Mutant of NextIndex: the index does not wrap.
NextIndexNoWrap(index, length) == index + 1

\* Mutant of NextIndex: the index does not advance.
NextIndexStuck(index, length) == index

\* (agentIndex + 1) % agentIds.length
NextIndex(index, length) == (index + 1) % length

\* The loop test, the lookup of the agent and the start of
\* getCompletionFromAgent up to its first await: lines 235-247, 99-119, 206-208.
LoopHead ==
  /\ pc = "loop"
  /\ UNCHANGED <<now, inFlight, res>>
  /\ UNCHANGED duoVars
  /\ UNCHANGED <<caller, agentIds, max_turns, messages, turnCount, agentIndex,
                 response, codeFile, completions>>
  /\ IF ~LoopTest(turnCount, max_turns)
     THEN /\ Finish("BUDGET_EXHAUSTED", result)
          /\ UNCHANGED <<result, agent, agentResponse, invocations, modelCalls,
                         executed, turnStart, toolReturned, lookups, speakers,
                         expected, request, agents>>
     ELSE LET agentId == agentIds[agentIndex + 1]
              pos == FindAgent(agents, agentId) IN
          /\ lookups' = lookups + 1
          /\ IF pos = 0
             THEN /\ result' = Push(result, NotFoundMessage(agentId))
                  /\ Finish("AGENT_NOT_FOUND", result')
                  /\ expected' = << >>
                  /\ UNCHANGED <<agent, agentResponse, invocations, modelCalls,
                                 executed, turnStart, toolReturned, speakers,
                                 request, agents>>
             ELSE /\ agent' = pos
                  /\ invocations' = invocations + 1
                  /\ speakers' = Append(speakers, [index |-> agentIndex, id |-> agents[pos].id])
                  /\ turnStart' = Len(result)
                  /\ executed' = 0
                  /\ toolReturned' = FALSE
                  /\ UNCHANGED result
                  /\ agents' = [agents EXCEPT ![pos].tools = ToolsAfterMap(@)]
                  /\ LET schema == SchemaOf(agents[pos].tools) IN
                     IF schema.threw
                     THEN \* thrown before the try: the run rejects
                          /\ Finish("THREW", result)
                          /\ expected' = << >>
                          /\ UNCHANGED <<agentResponse, modelCalls, request>>
                     ELSE IF Len(schema.schema) = 0
                     THEN /\ modelCalls' = 1
                          /\ request' = [messages |-> chatMessages(agents[pos], result)]
                          /\ pc' = "call1"
                          /\ UNCHANGED <<agentResponse, outcome, convRes, expected>>
                     ELSE /\ modelCalls' = 0
                          /\ agentResponse' = NoFunctionCall
                          /\ pc' = "resume"
                          /\ expected' = << >>
                          /\ UNCHANGED <<outcome, convRes, request>>

\* ---------------------------------------------- Single-Turn Responder
\* getCompletionFromAgent returns obj to the Conductor's await.
Return(obj) ==
  /\ agentResponse' = obj
  /\ pc' = "resume"

\* Mutant of fnName: the last requested call is taken.
fnNameLast(message) == message.tool_calls[Len(message.tool_calls)].function.name

\* message.tool_calls[0].function.name
fnName(message) == message.tool_calls[1].function.name

\* message.tool_calls[0].function.arguments || "{}"
rawArgs(message) ==
  IF FalsyString(message.tool_calls[1].function.arguments)
  THEN "{}" ELSE message.tool_calls[1].function.arguments

\* The transcript the opening messages and plain-text replies call for:
\* one assistant message per reply; << >> once a turn was anything else.
ExpectedAfter(m) ==
  IF expected # << >> /\ "tool_calls" \notin DOMAIN m /\ m.content \in PlainTexts
  THEN Append(expected, [role |-> "assistant", content |-> m.content])
  ELSE << >>

\* The provider settles the pending completion request.
Settles ==
  /\ completions < MaxCompletions
  /\ completions' = completions + 1

\* The first completion (no tools attached) settles: lines 116-141.
ModelReply1 ==
  /\ pc = "call1"
  /\ UNCHANGED storeVars
  /\ UNCHANGED duoVars
  /\ UNCHANGED <<caller, agentIds, max_turns, messages, result, turnCount,
                 agentIndex, agent, outcome, convRes, invocations, executed,
                 turnStart, toolReturned, lookups, speakers>>
  /\ Settles
  /\ \/ /\ Return(CaughtError("ModelCallError"))
        /\ expected' = << >>
        /\ UNCHANGED <<response, codeFile, modelCalls, request>>
     \/ \E m \in TextReplies \cup ToolCallReplies :
          /\ expected' = ExpectedAfter(m)
          /\ IF m.content = Null
             THEN \* null.includes: a TypeError inside the try
                  /\ Return(CaughtError("TypeError"))
                  /\ UNCHANGED <<response, codeFile, modelCalls, request>>
             ELSE IF includesFence(m.content)
             THEN /\ codeFile' = ExtractCode(m.content)
                  /\ Return([role |-> "assistant", content |-> m.content])
                  /\ UNCHANGED <<response, modelCalls, request>>
             ELSE \* the second completion, tools: schema, is sent
                  /\ response' = m
                  /\ modelCalls' = modelCalls + 1
                  /\ request' = [messages |-> chatMessages(agents[agent], result),
                                 tools |-> SchemaOf(agents[agent].tools).schema,
                                 tool_choice |-> "auto"]
                  /\ pc' = "call2"
                  /\ UNCHANGED <<agentResponse, codeFile>>

\* The second completion settles; its value is bound to a block-scoped
\* `response` and `message` is the first completion's message: lines 135-163.
ModelReply2 ==
  /\ pc = "call2"
  /\ UNCHANGED storeVars
  /\ UNCHANGED duoVars
  /\ UNCHANGED <<caller, agentIds, max_turns, messages, result, turnCount,
                 agentIndex, agent, response, outcome, convRes, codeFile,
                 invocations, modelCalls, executed, turnStart, toolReturned,
                 lookups, speakers, request>>
  /\ Settles
  /\ \/ /\ Return(CaughtError("ModelCallError"))
        /\ expected' = << >>
     \/ /\ UNCHANGED expected
        /\ LET message == response IN
           IF "tool_calls" \notin DOMAIN message
           THEN \* undefined[0]: a TypeError inside the try
                Return(CaughtError("TypeError"))
           ELSE IF Len(message.tool_calls) = 0
           THEN \* no branch returns: the function returns undefined
                Return(UndefinedObject)
           ELSE \* await getTools()
                /\ pc' = "getTools"
                /\ UNCHANGED agentResponse

\* getTools() settles: lines 163-167 and 202-204.
GetToolsDone ==
  /\ pc = "getTools"
  /\ UNCHANGED storeVars
  /\ UNCHANGED duoVars
  /\ UNCHANGED <<caller, agentIds, max_turns, messages, result, turnCount,
                 agentIndex, agent, response, outcome, convRes, codeFile,
                 invocations, modelCalls, completions, turnStart, toolReturned,
                 lookups, speakers, expected, request>>
  /\ LET allTools == getTools IN
     IF Lookup(allTools, fnName(response)) # UndefinedObject
     THEN /\ executed' = executed + 1
          /\ pc' = "execute"
          /\ UNCHANGED agentResponse
     ELSE /\ Return(NoFunctionCall)
          /\ UNCHANGED executed

\* Mutant of WithToolMessages: the tool-call message is not appended.
WithToolMessageOnly(transcript, message, toolMessage) ==
  Push(transcript, toolMessage)

\* messages.push(response.choices[0].message); messages.push(tool_call_result_message)
WithToolMessages(transcript, message, toolMessage) ==
  Push(Push(transcript, message), toolMessage)

\* The tool's execute settles: lines 167-189.
ExecDone ==
  /\ pc = "execute"
  /\ UNCHANGED storeVars
  /\ UNCHANGED duoVars
  /\ UNCHANGED <<caller, agentIds, max_turns, messages, turnCount, agentIndex,
                 agent, response, outcome, convRes, codeFile, invocations,
                 completions, executed, turnStart, lookups, speakers, expected>>
  /\ \/ /\ Return(CaughtError("ToolExecutionError"))
        /\ UNCHANGED <<result, modelCalls, toolReturned, request>>
     \/ \E r \in ExecResults :
          LET tool_call_result_message ==
                [role |-> "tool",
                 name |-> fnName(response),
                 content |-> JSONstringify(r),
                 tool_call_id |-> response.tool_calls[1].id] IN
          /\ result' = WithToolMessages(result, response, tool_call_result_message)
          /\ toolReturned' = TRUE
          /\ modelCalls' = modelCalls + 1
          /\ request' = completion_payload(result')
          /\ pc' = "final"
          /\ UNCHANGED agentResponse

\* The follow-up completion settles: lines 186-201.
FinalReply ==
  /\ pc = "final"
  /\ UNCHANGED storeVars
  /\ UNCHANGED duoVars
  /\ UNCHANGED <<caller, agentIds, max_turns, messages, result, turnCount,
                 agentIndex, agent, response, outcome, convRes, codeFile,
                 invocations, modelCalls, executed, turnStart, toolReturned,
                 lookups, speakers, expected, request>>
  /\ Settles
  /\ \/ Return(CaughtError("ModelCallError"))
     \/ \E output \in FinalContents :
          Return([role |-> "assistant",
                  tool_call |-> [name |-> fnName(response),
                                 arguments |-> ParsedArgs(rawArgs(response))],
                  model |-> agents[agent].model,
                  content |-> output,
                  message |-> result])

\* The Conductor's await settles: lines 247-268.
ConductorResume ==
  /\ pc = "resume"
  /\ UNCHANGED storeVars
  /\ UNCHANGED duoVars
  /\ UNCHANGED <<caller, agentIds, max_turns, messages, codeFile, invocations,
                 modelCalls, completions, executed, turnStart, toolReturned,
                 lookups, speakers, expected>>
  /\ TurnLocalsCleared
  /\ IF agentResponse = UndefinedObject
     THEN \* undefined.role: the run rejects
          /\ Finish("THREW", result)
          /\ UNCHANGED <<result, turnCount, agentIndex>>
     ELSE /\ result' = Push(result, [role |-> Get(agentResponse, "role"),
                                     content |-> Get(agentResponse, "content")])
          /\ agentIndex' = NextIndex(agentIndex, Len(agentIds))
          /\ turnCount' = turnCount + 1
          /\ pc' = "loop"
          /\ UNCHANGED <<outcome, convRes>>

\* A direct call of runMultiAgentConductor({agentIds, messages, max_turns}),
\* max_turns omitted (the parameter's default) or in 0..MaxTurns.
ConductorArgs ==
  [agentIds : IdLists, userInput : UserInputs]
  \cup [agentIds : IdLists, userInput : UserInputs, max_turns : 0..MaxTurns]

CallConductor ==
  \E args \in ConductorArgs :
    /\ pc \in {"idle", "done"}
    /\ UNCHANGED storeVars
    /\ UNCHANGED duoVars
    /\ UNCHANGED codeFile
    /\ convRes' = NoConvRes
    /\ EnterConductor(args.agentIds,
                      <<[role |-> "user", content |-> args.userInput]>>,
                      IF "max_turns" \in DOMAIN args THEN args.max_turns
                      ELSE DefaultMaxTurns,
                      "direct")

\* ------------------------------------------------------ specifications
StoreInit ==
  /\ now = 1
  /\ agents = << >>
  /\ inFlight = << >>
  /\ res = NoResponse

\* The variables local to one call of POST /start-conversation,
\* runMultiAgentConductor and getCompletionFromAgent.
Locals ==
  [pc |-> pc, caller |-> caller, agentIds |-> agentIds, max_turns |-> max_turns,
   messages |-> messages, result |-> result, turnCount |-> turnCount,
   agentIndex |-> agentIndex, agent |-> agent, response |-> response,
   agentResponse |-> agentResponse, outcome |-> outcome, convRes |-> convRes,
   invocations |-> invocations, modelCalls |-> modelCalls,
   completions |-> completions, executed |-> executed, turnStart |-> turnStart,
   toolReturned |-> toolReturned, lookups |-> lookups, speakers |-> speakers,
   expected |-> expected, request |-> request]

\* The locals of a conversation that has not been requested yet.
IdleLocals ==
  [pc |-> "idle", caller |-> "", agentIds |-> << >>, max_turns |-> 0,
   messages |-> << >>, result |-> << >>, turnCount |-> 0,
   agentIndex |-> 0, agent |-> 0, response |-> UndefinedObject,
   agentResponse |-> UndefinedObject, outcome |-> "", convRes |-> NoConvRes,
   invocations |-> 0, modelCalls |-> 0,
   completions |-> 0, executed |-> 0, turnStart |-> 0,
   toolReturned |-> FALSE, lookups |-> 0, speakers |-> << >>,
   expected |-> << >>, request |-> NoRequest]

ConvInit ==
  /\ pc = "idle"
  /\ caller = ""
  /\ agentIds = << >>
  /\ max_turns = 0
  /\ messages = << >>
  /\ result = << >>
  /\ turnCount = 0
  /\ agentIndex = 0
  /\ agent = 0
  /\ response = UndefinedObject
  /\ agentResponse = UndefinedObject
  /\ outcome = ""
  /\ convRes = NoConvRes
  /\ codeFile = Undefined
  /\ invocations = 0
  /\ modelCalls = 0
  /\ completions = 0
  /\ executed = 0
  /\ turnStart = 0
  /\ toolReturned = FALSE
  /\ lookups = 0
  /\ speakers = << >>
  /\ expected = << >>
  /\ request = NoRequest
  /\ parked = IdleLocals
  /\ self = 1

vars == <<now, agents, inFlight, res, pc, caller, agentIds, max_turns, messages,
          result, turnCount, agentIndex, agent, response, agentResponse,
          outcome, convRes, codeFile, invocations, modelCalls, completions,
          executed, turnStart, toolReturned, lookups, speakers, expected,
          request, parked, self>>

\* The management requests: the Agent Store from an empty store on.
StoreNext ==
  \/ Tick
  \/ CreateAgent
  \/ AddToolRequest
  \/ AddToolResume

\* The server after start-up: an empty store, no conversation.
ServerInit ==
  /\ StoreInit
  /\ ConvInit

StoreSpec == ServerInit /\ [][StoreNext]_vars

\* The management requests, one at a time: no /add-tool request starts
\* while another waits at its await.
SequentialAddTool ==
  /\ inFlight = << >>
  /\ AddToolRequest

SeqStoreNext ==
  \/ Tick
  \/ CreateAgent
  \/ SequentialAddTool
  \/ AddToolResume

SeqStoreSpec == ServerInit /\ [][SeqStoreNext]_vars

\* A management request handled from its first line to its response with
\* no other request in between, on the clock and the store st.
Handled(st, rq) ==
  IF rq.op = "tick"
  THEN [st EXCEPT !.now = @ + 1]
  ELSE IF rq.op = "create-agent"
  THEN IF CreateRejected(rq.body) THEN st
       ELSE [st EXCEPT !.agents = Push(@, createAgent(rq.body, st.now))]
  ELSE IF AddToolChecks(st.agents, rq.body).error = "await"
  THEN [st EXCEPT !.agents =
          AssignTool(@, FindAgent(st.agents, Number(rq.body.agentId)), rq.body.toolName)]
  ELSE st

RECURSIVE HandledAll(_, _)
HandledAll(st, rqs) ==
  IF rqs = << >> THEN st ELSE HandledAll(Handled(st, Head(rqs)), Tail(rqs))

TickRq == [op |-> "tick"]
CreateRq(body) == [op |-> "create-agent", body |-> body]
AddToolRq(agentId, toolName) ==
  [op |-> "add-tool", body |-> [agentId |-> agentId, toolName |-> toolName]]

BodyA == [name |-> "A", model |-> "gpt-4o"]
BodyB == [name |-> "B", model |-> "gpt-4o", systemMsg |-> "Be brief."]

\* The request histories a conversation follows.
Histories ==
  { << >>,
    <<CreateRq(BodyA), TickRq, CreateRq(BodyB)>>,
    <<CreateRq(BodyA), CreateRq(BodyB)>>,
    <<CreateRq(BodyA), AddToolRq(1, "add"), TickRq, CreateRq(BodyB)>>,
    <<CreateRq(BodyA), TickRq, CreateRq(BodyB), AddToolRq(2, "nope")>>,
    <<CreateRq(BodyA), AddToolRq(1, "add"), TickRq, CreateRq(BodyB), AddToolRq(2, "add")>> }

\* A conversation on the store that one of the request histories built.
Init ==
  /\ \E h \in Histories :
       LET st == HandledAll([now |-> 1, agents |-> << >>], h) IN
       /\ now = st.now
       /\ agents = st.agents
  /\ inFlight = << >>
  /\ res = NoResponse
  /\ ConvInit

Turn ==
  \/ LoopHead
  \/ ModelReply1
  \/ ModelReply2
  \/ GetToolsDone
  \/ ExecDone
  \/ FinalReply
  \/ ConductorResume

\* A conversation: a request to POST /start-conversation, or a call of
\* runMultiAgentConductor, and the turns it runs.
Next ==
  \/ StartConversation
  \/ CallConductor
  \/ Turn

Spec == Init /\ [][Next]_vars

\* =============================================================== claims
Last(seq) == seq[Len(seq)]
IsPrefix(a, b) == Len(a) <= Len(b) /\ SubSeq(b, 1, Len(a)) = a

\* A Conductor run has ended (a request rejected with 400 runs none).
RunEnded == pc = "done" /\ caller # ""

\* C1. A Conductor run with max_turns = N that has ended made exactly N
\* turns (N Responder calls, N increments of turnCount), or it made fewer
\* and the last message of its transcript is the diagnostic for the id it
\* could not find.
C1_ExactlyNTurns ==
  RunEnded =>
    \/ turnCount = max_turns /\ invocations = max_turns
    \/ /\ turnCount < max_turns
       /\ Last(result).role = "system"
       /\ Last(result) = NotFoundMessage(agentIds[agentIndex + 1])

\* C2. Round robin: the Responder call of turn t (counted from 0) is for
\* list position t mod k and the agent found for agentIds[t mod k]; in a run
\* of N turns that ends with its budget exhausted, position i has responded
\* in exactly floor((N - i + k - 1) / k) turns.
C2_RoundRobin ==
  caller # "" =>
    LET k == Len(agentIds) IN
    /\ \A t \in 1..Len(speakers) :
         /\ speakers[t].index = (t - 1) % k
         /\ speakers[t].id = agentIds[((t - 1) % k) + 1]
    /\ outcome = "BUDGET_EXHAUSTED" =>
         /\ Len(speakers) = max_turns
         /\ \A i \in 0..(k - 1) :
              Cardinality({t \in 1..Len(speakers) : speakers[t].index = i})
                = (max_turns - i + k - 1) \div k

C2_Witness ==
  /\ RunEnded
  /\ outcome = "BUDGET_EXHAUSTED"
  /\ Len(agentIds) = 2
  /\ agentIds[1] # agentIds[2]
  /\ max_turns = DefaultMaxTurns
  /\ Cardinality({t \in 1..Len(speakers) : speakers[t].index = 1}) = 3

\* C3. A run whose listed agents all exist and hold no tools, and in which
\* every reply of the model is plain text with no tool call, ends with the
\* opening message followed by one assistant message per turn carrying that
\* turn's reply text.
C3_PlainReplies ==
  (RunEnded /\ outcome = "BUDGET_EXHAUSTED" /\ expected # << >>) =>
    result = expected

\* C4. The step that resolves an id the store does not hold appends exactly
\* one system message naming that id, calls neither the Responder nor the
\* model, leaves turnCount as it is and ends the run; when that is the first
\* id of the run the transcript is the opening message and that message.
C4_UnknownAgentStops ==
  [][ (/\ pc = "loop"
       /\ turnCount < max_turns
       /\ FindAgent(agents, agentIds[agentIndex + 1]) = 0)
      =>
      LET diagnostic ==
            [role |-> "system",
             content |-> "Agent with id=" \o ToString(agentIds[agentIndex + 1])
                           \o " not found. Stopping."] IN
      /\ result' = Append(result, diagnostic)
      /\ turnCount = 0 => result' = Append(messages, diagnostic)
      /\ turnCount' = turnCount
      /\ invocations' = invocations
      /\ completions' = completions
      /\ pc' = "done"
      /\ outcome' = "AGENT_NOT_FOUND"
      /\ caller = "handler" => convRes' = [status |-> 200, messages |-> result']
    ]_vars

C4_Witness ==
  /\ RunEnded
  /\ outcome = "AGENT_NOT_FOUND"
  /\ agentIds = <<UnknownId>>
  /\ turnCount = 0
  /\ completions = 0
  /\ Len(result) = 2

\* C5. The transcript is append-only: every step of a run leaves the
\* transcript it found as a prefix of the one it leaves and does not touch
\* the caller's opening message list, so the transcript always starts with
\* the opening messages.
C5_AppendOnly ==
  /\ [](caller # "" => IsPrefix(messages, result))
  /\ [][ pc \notin {"idle", "done"} =>
          /\ IsPrefix(result, result')
          /\ messages' = messages ]_vars

C5_Witness ==
  /\ RunEnded
  /\ Len(result) = Len(messages) + 4
  /\ IsPrefix(messages, result)

\* C6. In a turn whose tool execution returned, the transcript holds exactly
\* two new entries, the model's tool-call message and then the tool-result
\* message, until the Conductor appends the turn's message, which is the
\* third and last entry of the turn and is the assistant summary when the
\* follow-up completion returned one.
C6_ToolRoundTrip ==
  /\ [](toolReturned /\ pc \in {"final", "resume", "loop"} =>
         LET call == result[turnStart + 1]
             tool == result[turnStart + 2] IN
         /\ Len(result) = turnStart + (IF pc = "loop" THEN 3 ELSE 2)
         /\ call.role = "assistant"
         /\ RequestsTool(call)
         /\ tool.role = "tool"
         /\ tool.name = call.tool_calls[1].function.name
         /\ tool.tool_call_id = call.tool_calls[1].id
         /\ (pc = "resume" /\ "tool_call" \in DOMAIN agentResponse) =>
              /\ agentResponse.role = "assistant"
              /\ agentResponse.content \in FinalContents)
  /\ [][ (toolReturned /\ pc = "resume") =>
          result' = Append(result, [role |-> Get(agentResponse, "role"),
                                    content |-> Get(agentResponse, "content")])
      ]_vars

C6_Witness ==
  /\ toolReturned
  /\ pc = "loop"
  /\ Len(result) = turnStart + 3
  /\ RequestsTool(result[turnStart + 1])
  /\ result[turnStart + 2].role = "tool"
  /\ Last(result).role = "assistant"
  /\ Last(result).content \in FinalContents

\* C7. No two agents of the store have the same id.
C7_UniqueIds ==
  \A i, j \in 1..Len(agents) : i # j => agents[i].id # agents[j].id

\* The agent holds a tool of that name.
HoldsTool(a, toolName) ==
  \E i \in 1..Len(a.tools) :
    /\ a.tools[i] # UndefinedObject
    /\ a.tools[i].details.name = toolName

C9_OnlyRegistryTools ==
  \A i \in 1..Len(agents) :
    \A j \in 1..Len(agents[i].tools) :
      \E name \in DOMAIN getTools : agents[i].tools[j] = getTools[name]

\* C10. A Conductor run with max_turns = 0 looks up no agent, calls neither
\* the Responder nor the model, appends nothing, and ends with the opening
\* messages as its transcript.
C10_ZeroTurns ==
  (caller # "" /\ max_turns = 0) =>
    /\ pc \in {"loop", "done"}
    /\ result = messages
    /\ lookups = 0
    /\ invocations = 0
    /\ completions = 0
    /\ modelCalls = 0
    /\ pc = "done" => outcome = "BUDGET_EXHAUSTED"

C10_Witness ==
  /\ RunEnded
  /\ max_turns = 0
  /\ Len(agentIds) > 0
  /\ outcome = "BUDGET_EXHAUSTED"
  /\ result = messages
  /\ Len(result) = 1

\* C11. POST /start-conversation runs the Conductor with exactly the
\* maxTurns the request supplied, 0 included, and with 6 only when the
\* request has no maxTurns.
C11_SuppliedMaxTurns ==
  [][ \A body \in ConversationBodies :
        (StartConversationFor(body) /\ Len(body.agentIds) > 0)
        =>
        /\ caller' = "handler"
        /\ max_turns' = IF "maxTurns" \in DOMAIN body THEN body.maxTurns ELSE 6
    ]_vars

\* C12. A failure of a tool's execute is not turned into a return value of
\* the Responder: the Conductor never receives a value made from the
\* failure, and a turn whose tool execution failed appends no message and
\* is not counted.
C12_ToolFailurePropagates ==
  /\ [](Get(agentResponse, "details") # "ToolExecutionError")
  /\ [][ (pc = "execute" /\ ~toolReturned' /\ pc' # "execute") =>
           /\ pc' = "done"
           /\ outcome' \notin {"BUDGET_EXHAUSTED", "AGENT_NOT_FOUND"}
           /\ turnCount' = turnCount ]_vars

\* C13. A failure of a model call is not turned into a return value of the
\* Responder and the call is not repeated: the Conductor never receives a
\* value made from the failure, and the turn makes no further model call.
C13_ModelFailurePropagates ==
  /\ [](Get(agentResponse, "details") # "ModelCallError")
  /\ [][ Get(agentResponse', "details") = "ModelCallError" =>
           modelCalls' = modelCalls ]_vars

\* C14. When the model requests a tool that the Registry does not hold, the
\* Responder returns a message of role assistant whose content is defined
\* (it states that the tool was not found), executes no tool and calls the
\* model no more in that turn.
C14_ToolNotFoundMessage ==
  [][ (pc = "getTools" /\ fnName(response) \notin DOMAIN getTools) =>
        /\ pc' = "resume"
        /\ Get(agentResponse', "role") = "assistant"
        /\ Get(agentResponse', "content") \notin {Undefined, Null}
        /\ executed' = 0
        /\ modelCalls' = modelCalls
        /\ completions' = completions ]_vars

\* C15. The message the Conductor appends for a completed turn carries the
\* name of the agent resolved for that turn.
C15_AttributedToAgent ==
  [][ (pc = "resume" /\ pc' = "loop") =>
        /\ Len(result') = Len(result) + 1
        /\ Get(Last(result'), "name") = agents[agent].name ]_vars

\* C16. Every message of the transcript has a role among user, assistant,
\* system and tool, and a defined content.
C16_WellFormedMessages ==
  \A i \in 1..Len(result) :
    /\ Get(result[i], "role") \in {"user", "assistant", "system", "tool"}
    /\ Get(result[i], "content") # Undefined

\* C17. A Conductor run stops only in AGENT_NOT_FOUND (the id it resolved
\* is not in the store) or in BUDGET_EXHAUSTED (turnCount equals max_turns),
\* and in both cases the caller gets the transcript: no run ends in any
\* other way.
C17_StopsInTerminalState ==
  RunEnded =>
    /\ outcome \in {"AGENT_NOT_FOUND", "BUDGET_EXHAUSTED"}
    /\ outcome = "BUDGET_EXHAUSTED" => turnCount = max_turns
    /\ outcome = "AGENT_NOT_FOUND" =>
         FindAgent(agents, agentIds[agentIndex + 1]) = 0
    /\ caller = "handler" => convRes = [status |-> 200, messages |-> result]

\* C18. A request to create an agent whose name or model is empty or
\* missing is answered with the validation error and leaves the Agent
\* Store as it was.
C18_InvalidCreateRejected ==
  [][ \A body \in CreateBodies :
        (/\ CreateAgentFor(body)
         /\ \/ Get(body, "name") \in {Undefined, ""}
            \/ Get(body, "model") \in {Undefined, ""})
        =>
        /\ res' = [route |-> "/create-agent", status |-> 400,
                   error |-> "name and model are required"]
        /\ agents' = agents
    ]_vars

C18_Witness ==
  /\ res = [route |-> "/create-agent", status |-> 400,
            error |-> "name and model are required"]
  /\ Len(agents) = 1
  /\ now = 2

\* C19. Every turn for a found agent invokes the model at least once,
\* whether the agent's tool list is empty or not: when the Responder
\* returns to the Conductor it has made a model call in that turn.
C19_ModelInvokedEveryTurn ==
  pc = "resume" => modelCalls >= 1

\* C20. A turn invokes the model at most twice, and a second time only
\* after a tool execution that returned.
C20_AtMostTwoModelCalls ==
  caller # "" =>
    /\ modelCalls <= 2
    /\ modelCalls = 2 => toolReturned

\* C21. Every completion request of a turn, the initial ones and the
\* follow-up after a tool execution alike, carries a message list that
\* starts with the system message of the responding agent (its prompt, or
\* the default text) and continues with the transcript.
C21_SystemMessageFirst ==
  pc \in {"call1", "call2", "final"} =>
    /\ Len(request.messages) = Len(result) + 1
    /\ request.messages[1].role = "system"
    /\ request.messages[1].content =
         (IF agents[agent].systemMsg = Undefined THEN "You are a helpful agent."
          ELSE agents[agent].systemMsg)
    /\ Tail(request.messages) = result

\* C22. Every tool-result message of a transcript comes right after the
\* model's tool-call message that requested it, carries the id of that
\* request as tool_call_id, and has the JSON encoding of the tool's result
\* as content.
C22_ToolResultMessage ==
  /\ [](\A i \in 1..Len(result) :
          Get(result[i], "role") = "tool" =>
            /\ i > 1
            /\ result[i - 1].role = "assistant"
            /\ RequestsTool(result[i - 1])
            /\ result[i].tool_call_id = result[i - 1].tool_calls[1].id
            /\ result[i].name = result[i - 1].tool_calls[1].function.name
            /\ result[i].content \in {ToString(r) : r \in ExecResults})
  /\ [][ (pc = "execute" /\ toolReturned') =>
           \E r \in ExecResults :
             result' = result \o
               << response,
                  [role |-> "tool",
                   name |-> response.tool_calls[1].function.name,
                   content |-> ToString(r),
                   tool_call_id |-> response.tool_calls[1].id] >> ]_vars

C22_Witness ==
  /\ RunEnded
  /\ \E i \in 2..Len(result) :
       /\ Get(result[i], "role") = "tool"
       /\ result[i].content = "3"
       /\ result[i].tool_call_id = "call_1"
       /\ i < Len(result)

\* C23. A turn executes at most one tool: of the tool calls a reply
\* requests only the first is looked up and executed; the others lead to no
\* execution, to no message and to no error.
C23_OnlyFirstToolCall ==
  /\ [](caller # "" => executed <= 1)
  /\ [](toolReturned =>
          /\ Cardinality({i \in (turnStart + 1)..Len(result) :
                            Get(result[i], "role") = "tool"}) = 1
          /\ result[turnStart + 2].name =
               result[turnStart + 1].tool_calls[1].function.name)
  /\ [][ pc = "getTools" =>
           IF response.tool_calls[1].function.name \in DOMAIN getTools
           THEN pc' = "execute" /\ executed' = 1 /\ result' = result
           ELSE pc' = "resume" /\ executed' = 0 /\ result' = result ]_vars

C23_Witness ==
  /\ toolReturned
  /\ pc = "loop"
  /\ Len(result[turnStart + 1].tool_calls) = 2
  /\ result[turnStart + 1].tool_calls[2].function.name = "nope"
  /\ Len(result) = turnStart + 3
  /\ Last(result).content \in FinalContents

\* C24. A tool-call payload that is not JSON does not abort the turn: the
\* tool is looked up and executed with an empty argument set and the turn
\* ends as it does for the payload {}.
C24_MalformedArguments ==
  /\ [][ (pc = "call2" /\ RequestsTool(response) /\ pc' # "getTools") =>
           Get(agentResponse', "details") = "ModelCallError" ]_vars
  /\ [][ (/\ pc = "getTools"
          /\ response.tool_calls[1].function.arguments = "{oops"
          /\ response.tool_calls[1].function.name \in DOMAIN getTools) =>
           pc' = "execute" ]_vars
  /\ [](("tool_call" \in DOMAIN agentResponse) =>
          /\ agentResponse.tool_call.arguments = << >>
          /\ agentResponse.role = "assistant"
          /\ toolReturned)

C24_Witness ==
  /\ pc = "resume"
  /\ "tool_call" \in DOMAIN agentResponse
  /\ response.tool_calls[1].function.arguments = "{oops"
  /\ agentResponse.content \in FinalContents

\* C25. In every state of a Conductor run turnCount is in 0..max_turns and
\* agentIndex is a position of the agentIds list (0-based), equal to
\* turnCount modulo the length of the list.
C25_CountAndIndex ==
  caller # "" =>
    /\ turnCount \in 0..max_turns
    /\ agentIndex \in 0..(Len(agentIds) - 1)
    /\ agentIndex = turnCount % Len(agentIds)

C25_Witness ==
  /\ RunEnded
  /\ Len(agentIds) = 2
  /\ max_turns = DefaultMaxTurns
  /\ turnCount = 3
  /\ agentIndex = 1

\* C26. No agent holds two tools of the same name, racing /add-tool
\* requests included.
C26_NoDuplicateTools ==
  \A a \in 1..Len(agents) :
    \A i, j \in 1..Len(agents[a].tools) :
      (/\ i # j
       /\ agents[a].tools[i] # UndefinedObject
       /\ agents[a].tools[j] # UndefinedObject)
      => agents[a].tools[i].details.name # agents[a].tools[j].details.name

\* C28. A turn executes a tool only if the responding agent holds it.
C28_ExecutesOnlyAssigned ==
  pc \in {"execute", "final"} =>
    HoldsTool(agents[agent], response.tool_calls[1].function.name)

\* C29. No step of a conversation changes the Agent Store: the list of
\* agents and every agent's id, name, model, prompt and tools are after the
\* step what they were before it.
C29_StoreUnchangedByRun ==
  [][ /\ Len(agents') = Len(agents)
      /\ \A i \in 1..Len(agents) :
           /\ agents'[i].id = agents[i].id
           /\ agents'[i].name = agents[i].name
           /\ agents'[i].model = agents[i].model
           /\ agents'[i].systemMsg = agents[i].systemMsg
           /\ agents'[i].tools = agents[i].tools
    ]_vars

C29_Witness ==
  /\ RunEnded
  /\ outcome = "BUDGET_EXHAUSTED"
  /\ Len(speakers) = 2
  /\ agents[FindAgent(agents, speakers[1].id)].tools # << >>
  /\ agents[FindAgent(agents, speakers[2].id)].tools = << >>
  /\ completions > 0

\* The management requests only add: every step keeps the agents it found,
\* with their id, name, model and prompt, and only appends to tools.
StoreOnlyGrows ==
  [][ /\ Len(agents') >= Len(agents)
      /\ \A i \in 1..Len(agents) :
           /\ agents'[i].id = agents[i].id
           /\ agents'[i].name = agents[i].name
           /\ agents'[i].model = agents[i].model
           /\ agents'[i].systemMsg = agents[i].systemMsg
           /\ IsPrefix(agents[i].tools, agents'[i].tools)
    ]_vars

\* ------------------------------------------- two conversations at once
\* Where a conversation can be when another one runs: not started, ended,
\* or suspended at an await.
Suspended == {"idle", "done", "call1", "call2", "getTools", "execute", "final", "resume"}

\* Mutant of ResumedTranscript: one array serves every conversation.
ResumedTranscriptShared(own, running) == running

\* The transcript a resumed conversation finds: `result` is built by its own
\* call of runMultiAgentConductor ({ messages: [...messages] }), so it is
\* the array that call left, whatever ran in between.
ResumedTranscript(own, running) == own

\* The event loop resumes the other conversation: its locals come back, the
\* locals of the one that ran are kept for its own resumption.  The store
\* and ./code.py are shared.
Yield ==
  /\ pc \in Suspended
  /\ UNCHANGED storeVars
  /\ UNCHANGED codeFile
  /\ self' = 3 - self
  /\ parked' = Locals
  /\ pc' = parked.pc
  /\ caller' = parked.caller
  /\ agentIds' = parked.agentIds
  /\ max_turns' = parked.max_turns
  /\ messages' = parked.messages
  /\ result' = ResumedTranscript(parked.result, result)
  /\ turnCount' = parked.turnCount
  /\ agentIndex' = parked.agentIndex
  /\ agent' = parked.agent
  /\ response' = parked.response
  /\ agentResponse' = parked.agentResponse
  /\ outcome' = parked.outcome
  /\ convRes' = parked.convRes
  /\ invocations' = parked.invocations
  /\ modelCalls' = parked.modelCalls
  /\ completions' = parked.completions
  /\ executed' = parked.executed
  /\ turnStart' = parked.turnStart
  /\ toolReturned' = parked.toolReturned
  /\ lookups' = parked.lookups
  /\ speakers' = parked.speakers
  /\ expected' = parked.expected
  /\ request' = parked.request

\* The two requests: conversation 1 lists both agents for two turns,
\* conversation 2 lists the second agent for one turn.
DuoInput(c) == IF c = 1 THEN "one" ELSE "two"
DuoBody(c) ==
  IF c = 1
  THEN [agentIds |-> <<1, 2>>, userInput |-> DuoInput(1), maxTurns |-> 2]
  ELSE [agentIds |-> <<2>>, userInput |-> DuoInput(2), maxTurns |-> 1]

\* POST /start-conversation of the running conversation.
DuoStart ==
  /\ pc = "idle"
  /\ StartConversationFor(DuoBody(self))

\* A store of two agents without tools, no conversation yet.
DuoInit ==
  /\ LET st == HandledAll([now |-> 1, agents |-> << >>],
                          <<CreateRq(BodyA), TickRq, CreateRq(BodyB)>>) IN
     /\ now = st.now
     /\ agents = st.agents
  /\ inFlight = << >>
  /\ res = NoResponse
  /\ ConvInit

DuoNext ==
  \/ DuoStart
  \/ Turn
  \/ Yield

DuoSpec == DuoInit /\ [][DuoNext]_vars

\* The transcript tr of conversation c, whose run made tc turns so far, holds
\* its own opening message and then only what its own turns produced: one
\* message per completed turn and two more per tool round trip.
OwnTranscript(c, l) ==
  l.caller # "" =>
    /\ l.messages = <<[role |-> "user", content |-> DuoInput(c)]>>
    /\ IsPrefix(l.messages, l.result)
    /\ Len(l.result) =
         1 + l.turnCount
           + 2 * Cardinality({i \in 1..Len(l.result) : Get(l.result[i], "role") = "tool"})
    /\ \A i \in 1..Len(l.result) : l.result[i].content # DuoInput(3 - c)
    /\ l.turnCount <= l.max_turns
    /\ l.agentIndex = l.turnCount % Len(l.agentIds)

\* C27. Two conversations that interleave at their awaits share no
\* conversation state: a step of one leaves the other's transcript, turn
\* count and agent index as they are, a resumed conversation finds them as
\* it left them, and each transcript holds only its own opening message and
\* the messages of its own turns.
C27_ConversationsIsolated ==
  /\ [][ self' = self =>
           /\ parked'.result = parked.result
           /\ parked'.turnCount = parked.turnCount
           /\ parked'.agentIndex = parked.agentIndex ]_vars
  /\ [][ self' # self =>
           /\ result' = parked.result
           /\ turnCount' = parked.turnCount
           /\ agentIndex' = parked.agentIndex
           /\ parked'.result = result
           /\ parked'.turnCount = turnCount
           /\ parked'.agentIndex = agentIndex ]_vars
  /\ [](OwnTranscript(self, Locals) /\ OwnTranscript(3 - self, parked))
  /\ [](convRes.status = 200 => convRes.messages = result)

C27_Witness ==
  /\ self = 2
  /\ pc = "done"
  /\ convRes.status = 200
  /\ Len(result) = 4
  /\ parked.pc = "call2"
  /\ parked.turnCount = 1
  /\ Len(parked.result) = 4
====
